---- MODULE Spec2Model ----
(***************************************************************************)
(* Model of the soccer_events match model (src/soccer_events/core.py) and  *)
(* of the event CRUD handlers that mutate it (src/app.py), of the match    *)
(* registry and its ingestion from StatsBomb records (src/app.py,          *)
(* src/soccer_events/statsbomb_loader.py) and of the Dirichlet priors over  *)
(* event types (src/soccer_events/probabilistic.py).                       *)
(*                                                                         *)
(* Python objects are modelled as heap cells: an Event is a key of `ev`,   *)
(* a PossessionNode is an index of `poss`; a reference is the key/index of *)
(* the object and None is 0.  Event keys are handed out in allocation      *)
(* order, so a smaller key is an earlier add_event call.  Events that no   *)
(* reference reaches any more are dropped from `ev` (reference counting).  *)
(***************************************************************************)
EXTENDS Integers, Sequences, FiniteSets, TLC

\* ---- bounds -------------------------------------------------------------
MaxEvents == 3          \* Event objects created in a behaviour of Spec
MaxPossessions == 2     \* PossessionNode objects created in a behaviour
MaxTime == 2            \* match_time inputs are 0 .. MaxTime
MaxUpdateEvents == 2    \* Event objects created in a behaviour of SpecUpdate
MaxUniformEvents == 6   \* Event objects created in a behaviour of SpecUniform
MaxRequestEvents == 2   \* Event objects created in a behaviour of SpecRequests
MaxReinsertEvents == 6  \* Event objects created in a behaviour of SpecReinsert
MaxRecords == 3         \* records of an ingested StatsBomb collection
MaxGenEvents == 1       \* events the synthetic generator adds to a match
MaxObservations == 3    \* events observed by the priors in a behaviour
MaxBatch == 2           \* events of one update_from_events call

None == 0

\* ---- the closed label set (core.py EventType) ------------------------------
EventType ==
    {"PASS", "SHOT", "FOUL", "TURNOVER", "TACKLE", "DRIBBLE",
     "INTERCEPTION", "SAVE", "CLEARANCE", "OTHER"}

\* ---- request inputs ------------------------------------------------------
\* A JSON field of a request body: absent, a number, or a string.
Absent == [k |-> "absent", n |-> 0, s |-> ""]
Num(n) == [k |-> "num", n |-> n, s |-> ""]
Str(s) == [k |-> "str", n |-> 0, s |-> s]

\* inputs of Spec: well-formed requests, every match_time of 0 .. MaxTime
TimeVals == 0 .. MaxTime
TimeInputs == {Num(t) : t \in TimeVals}
TypeInputs == {Str("PASS")}
TeamInputs == {Str("H")}
PossessionTeams == {"A"}
UpdateTypeInputs == {Absent, Str("SHOT")}

\* the single payload of SpecUniform
UniTimeInputs == {Num(1)}

\* request bodies of SpecRequests: <<match_time, event_type, team>>, one
\* well-formed, the others with one or several offending fields
CreateRequests ==
    {<<Num(1), Str("PASS"), Str("H")>>,
     <<Absent, Str("PASS"), Str("H")>>,
     <<Str("abc"), Str("PASS"), Str("H")>>,
     <<Num(1), Absent, Str("H")>>,
     <<Num(1), Str(""), Str("H")>>,
     <<Num(1), Str("BOGUS"), Str("H")>>,
     <<Num(1), Str("PASS"), Absent>>,
     <<Absent, Str("BOGUS"), Absent>>}

VARIABLES
    ev,                  \* heap of Event objects: key -> fields
    poss,                \* heap of PossessionNode objects: index -> fields
    first_possession,    \* Match._first_possession
    last_possession,     \* Match._last_possession
    events,              \* Match._events: sequence of Event references
    next_possession_id,  \* Match._next_possession_id
    next_event,          \* allocation counter of Event objects (identity)
    mutated,             \* history: some update changed a match_time
    resp,                \* the last request and its response
    matches,             \* app._matches: match_id -> registered Match
    sb,                  \* the running _create_demo_match call, if any
    prior,               \* an EventTypePrior: alpha and counts
    state_priors         \* a StateEventTypePriors: alpha and priors

vars == <<ev, poss, first_possession, last_possession, events,
          next_possession_id, next_event, mutated, resp,
          matches, sb, prior, state_priors>>

\* what the handlers of one match leave alone
Aside == UNCHANGED <<matches, sb, prior, state_priors>>

\* ---- conversions ---------------------------------------------------------
\* float(data["match_time"]): a number converts, a missing key raises
\* KeyError, a non-numeric string raises ValueError.
FloatOk(f) == f.k = "num"
FloatOf(f) == f.n

\* faulty parse: any string is taken as a label
ParseOk_any(f) == f.k = "str"

\* EventType(value): lookup of a member by its value, ValueError otherwise.
ParseOk(f) == f.k = "str" /\ f.s \in EventType
ParseOf(f) == f.s

\* `not value` for a JSON field fetched with data.get(...)
Falsy(f) == f.k = "absent" \/ (f.k = "str" /\ f.s = "")

\* ---- traversals ----------------------------------------------------------
RECURSIVE FwdFrom(_, _, _)
FwdFrom(h, cur, fuel) ==
    IF cur = None \/ fuel = 0 THEN <<>>
    ELSE <<cur>> \o FwdFrom(h, h[cur].next_in_possession, fuel - 1)

RECURSIVE BwdFrom(_, _, _)
BwdFrom(h, cur, fuel) ==
    IF cur = None \/ fuel = 0 THEN <<>>
    ELSE <<cur>> \o BwdFrom(h, h[cur].prev_in_possession, fuel - 1)

\* PossessionNode.iter_events / iter_events_reverse on a given heap; a
\* traversal longer than the number of objects never ends and is cut there
ChainOf(h, ps, p) == FwdFrom(h, ps[p].first_event, Cardinality(DOMAIN h) + 1)
ChainReverseOf(h, ps, p) == BwdFrom(h, ps[p].last_event, Cardinality(DOMAIN h) + 1)

PossIterEvents(p) == ChainOf(ev, poss, p)
PossIterEventsReverse(p) == ChainReverseOf(ev, poss, p)

RECURSIVE PossFwdFrom(_, _, _)
PossFwdFrom(ps, cur, fuel) ==
    IF cur = None \/ fuel = 0 THEN <<>>
    ELSE <<cur>> \o PossFwdFrom(ps, ps[cur].next_possession, fuel - 1)

RECURSIVE PossBwdFrom(_, _, _)
PossBwdFrom(ps, cur, fuel) ==
    IF cur = None \/ fuel = 0 THEN <<>>
    ELSE <<cur>> \o PossBwdFrom(ps, ps[cur].prev_possession, fuel - 1)

\* Match.iter_possessions / iter_possessions_reverse
iter_possessions == PossFwdFrom(poss, first_possession, Len(poss) + 1)
iter_possessions_reverse == PossBwdFrom(poss, last_possession, Len(poss) + 1)

\* Match.iter_events
iter_events == events

Range(s) == {s[i] : i \in 1 .. Len(s)}
Reverse(s) == [i \in 1 .. Len(s) |-> s[Len(s) + 1 - i]]
RemoveAt(s, i) == [j \in 1 .. Len(s) - 1 |-> IF j < i THEN s[j] ELSE s[j + 1]]
InsertAt(s, i, x) ==
    [j \in 1 .. Len(s) + 1 |-> IF j <= i THEN s[j] ELSE IF j = i + 1 THEN x ELSE s[j - 1]]
RECURSIVE SelectIds(_, _)
SelectIds(s, S) ==
    IF s = <<>> THEN <<>>
    ELSE (IF Head(s) \in S THEN <<Head(s)>> ELSE <<>>) \o SelectIds(Tail(s), S)

\* the sequences over S of length 0 .. n
RECURSIVE SeqsUpTo(_, _)
SeqsUpTo(S, n) ==
    IF n = 0 THEN {<<>>}
    ELSE SeqsUpTo(S, n - 1) \cup
         {Append(q, x) : q \in {r \in SeqsUpTo(S, n - 1) : Len(r) = n - 1}, x \in S}

\* ---- reference counting --------------------------------------------------
RECURSIVE Closure(_, _)
Closure(h, S) ==
    LET S2 == (S \cup {h[e].prev_in_possession : e \in S}
                 \cup {h[e].next_in_possession : e \in S}) \ {None}
    IN IF S2 = S THEN S ELSE Closure(h, S2)

Reachable(h, ps, evs) ==
    Closure(h, (Range(evs) \cup {ps[p].first_event : p \in 1 .. Len(ps)}
                           \cup {ps[p].last_event : p \in 1 .. Len(ps)}) \ {None})

Collect(h, ps, evs) == [e \in Reachable(h, ps, evs) |-> h[e]]

\* ---- core.py ---------------------------------------------------------------
\* the tags of an event: a dict from tag names to values, {} by default
NoTags == <<>>
GoalTags == [is_goal |-> TRUE]
NoGoalTags == [is_goal |-> FALSE]

\* Event(...) as constructed by Match.add_event: no links yet, and no tags
\* (tags reach an event of this model through a later PATCH)
NewEvent(match_time, event_type, team) ==
    [match_time |-> match_time, event_type |-> event_type, team |-> team,
     tags |-> NoTags,
     prev_in_possession |-> None, next_in_possession |-> None, possession |-> None]

\* faulty allocation: the id counter is not advanced
new_possession_op_same_id(ps, fp, lp, npid, team) ==
    LET node == Len(ps) + 1
        fresh == [id |-> npid, team_in_possession |-> team,
                  prev_possession |-> lp, next_possession |-> None,
                  first_event |-> None, last_event |-> None]
    IN [poss |-> IF lp = None THEN Append(ps, fresh)
                 ELSE [Append(ps, fresh) EXCEPT ![lp].next_possession = node],
        first |-> IF lp = None THEN node ELSE fp, last |-> node,
        npid |-> npid, node |-> node]

\* Match.new_possession: the heap, the chain ends, the counter and the node
new_possession_op(ps, fp, lp, npid, team) ==
    LET node == Len(ps) + 1
        fresh == [id |-> npid, team_in_possession |-> team,
                  prev_possession |-> None, next_possession |-> None,
                  first_event |-> None, last_event |-> None]
    IN IF lp = None
       THEN [poss |-> Append(ps, fresh), first |-> node, last |-> node,
             npid |-> npid + 1, node |-> node]
       ELSE [poss |-> [Append(ps, [fresh EXCEPT !.prev_possession = lp])
                          EXCEPT ![lp].next_possession = node],
             first |-> fp, last |-> node, npid |-> npid + 1, node |-> node]

\* PossessionNode.add_event: event e (already on the heap h) joins possession p
PossAddEvent(h, ps, p, e) ==
    LET h1 == [h EXCEPT ![e].possession = p]
    IN IF ps[p].last_event = None
       THEN [ev |-> h1,
             poss |-> [ps EXCEPT ![p].first_event = e, ![p].last_event = e]]
       ELSE LET l == ps[p].last_event
                h2 == [h1 EXCEPT ![e].prev_in_possession = l]
                h3 == [h2 EXCEPT ![l].next_in_possession = e]
            IN [ev |-> h3, poss |-> [ps EXCEPT ![p].last_event = e]]

\* faulty scans: no scan at all (append), and a scan that also passes ties
InsertIdx_append(h, evs, idx, t) == idx

RECURSIVE InsertIdx_unstable(_, _, _, _)
InsertIdx_unstable(h, evs, idx, t) ==
    IF idx > 0 /\ h[evs[idx]].match_time >= t
    THEN InsertIdx_unstable(h, evs, idx - 1, t)
    ELSE idx

\* the backward scan of Match.add_event: the number of events left in front
RECURSIVE InsertIdx(_, _, _, _)
InsertIdx(h, evs, idx, t) ==
    IF idx > 0 /\ h[evs[idx]].match_time > t
    THEN InsertIdx(h, evs, idx - 1, t)
    ELSE idx

\* Match.add_event; possession = None starts a new possession for the team
add_event_op(h, ps, fp, lp, npid, evs, e, match_time, event_type, team, possession) ==
    LET np == IF possession = None
              THEN new_possession_op(ps, fp, lp, npid, team)
              ELSE [poss |-> ps, first |-> fp, last |-> lp, npid |-> npid,
                    node |-> possession]
        h0 == [k \in DOMAIN h \cup {e} |->
                  IF k = e THEN NewEvent(match_time, event_type, team) ELSE h[k]]
        at == PossAddEvent(h0, np.poss, np.node, e)
        idx == InsertIdx(at.ev, evs, Len(evs), match_time)
    IN [ev |-> at.ev, poss |-> at.poss, first |-> np.first, last |-> np.last,
        npid |-> np.npid, events |-> InsertAt(evs, idx, e), node |-> np.node]

\* faulty scan: the upper bound is exclusive
RECURSIVE RangeScan_exclusive(_, _, _, _)
RangeScan_exclusive(h, evs, start, end) ==
    IF evs = <<>> THEN <<>>
    ELSE IF h[Head(evs)].match_time < start THEN RangeScan_exclusive(h, Tail(evs), start, end)
    ELSE IF h[Head(evs)].match_time >= end THEN <<>>
    ELSE <<Head(evs)>> \o RangeScan_exclusive(h, Tail(evs), start, end)

\* faulty scan: an event before `start` ends the scan as well
RECURSIVE RangeScan_stops_below(_, _, _, _)
RangeScan_stops_below(h, evs, start, end) ==
    IF evs = <<>> THEN <<>>
    ELSE IF h[Head(evs)].match_time < start THEN <<>>
    ELSE IF h[Head(evs)].match_time > end THEN <<>>
    ELSE <<Head(evs)>> \o RangeScan_stops_below(h, Tail(evs), start, end)

\* Match.events_in_time_range: scan that stops at the first event past `end`
RECURSIVE RangeScan(_, _, _, _)
RangeScan(h, evs, start, end) ==
    IF evs = <<>> THEN <<>>
    ELSE IF h[Head(evs)].match_time < start THEN RangeScan(h, Tail(evs), start, end)
    ELSE IF h[Head(evs)].match_time > end THEN <<>>
    ELSE <<Head(evs)>> \o RangeScan(h, Tail(evs), start, end)

events_in_time_range(start, end) == RangeScan(ev, events, start, end)

\* the time-window filter of list_events (app.py): no early termination
ListEventsWindow(start, end) ==
    SelectIds(events, {e \in DOMAIN ev : start <= ev[e].match_time /\ ev[e].match_time <= end})

\* the loop of Match.events_by_type over the events evs
RECURSIVE TypeScan(_, _, _)
TypeScan(h, evs, type_set) ==
    IF evs = <<>> THEN <<>>
    ELSE IF h[Head(evs)].event_type \in type_set
    THEN <<Head(evs)>> \o TypeScan(h, Tail(evs), type_set)
    ELSE TypeScan(h, Tail(evs), type_set)

\* Match.events_by_type(*types)
events_by_type(type_set) == TypeScan(ev, events, type_set)

\* the loop of Match.shots_for_team over the events evs
RECURSIVE TeamScan(_, _, _)
TeamScan(h, evs, team) ==
    IF evs = <<>> THEN <<>>
    ELSE IF h[Head(evs)].team = team
    THEN <<Head(evs)>> \o TeamScan(h, Tail(evs), team)
    ELSE TeamScan(h, Tail(evs), team)

\* Match.shots_for_team
shots_for_team(team) == TeamScan(ev, events_by_type({"SHOT"}), team)

\* ev.tags.get("is_goal"), its truth value
IsGoal(tags) == "is_goal" \in DOMAIN tags /\ tags.is_goal

\* the loop of Match.goals_for_team over the events evs
RECURSIVE GoalScan(_, _, _)
GoalScan(h, evs, team) ==
    IF evs = <<>> THEN <<>>
    ELSE IF h[Head(evs)].team = team /\ IsGoal(h[Head(evs)].tags)
    THEN <<Head(evs)>> \o GoalScan(h, Tail(evs), team)
    ELSE GoalScan(h, Tail(evs), team)

\* faulty filter: every event is looked at, not only the shots
goals_for_team_any_type(team) == GoalScan(ev, events, team)

\* Match.goals_for_team
goals_for_team(team) == GoalScan(ev, events_by_type({"SHOT"}), team)

\* the loop of Match.possessions_for_team over the nodes walk
RECURSIVE PossTeamScan(_, _, _)
PossTeamScan(ps, walk, team) ==
    IF walk = <<>> THEN <<>>
    ELSE IF ps[Head(walk)].team_in_possession = team
    THEN <<Head(walk)>> \o PossTeamScan(ps, Tail(walk), team)
    ELSE PossTeamScan(ps, Tail(walk), team)

\* Match.possessions_for_team
possessions_for_team(team) == PossTeamScan(poss, iter_possessions, team)

\* ---- equality of dataclass instances -------------------------------------
\* PossessionNode.__eq__ inside a tuple comparison: the same object is equal;
\* two nodes are compared field by field, id first.  Nodes with equal id and
\* team would go on to their links; that comparison is reported as "E".
PossEq(ps, p, q) ==
    IF p = q THEN "T"
    ELSE IF p = None \/ q = None THEN "F"
    ELSE IF ps[p].id # ps[q].id THEN "F"
    ELSE IF ps[p].team_in_possession # ps[q].team_in_possession THEN "F"
    ELSE "E"

\* Event.__eq__ (dataclass, eq=True): the field tuples are compared left to
\* right, each pair by identity first and by == otherwise, stopping at the
\* first unequal pair.  The links recurse; a comparison that re-enters a pair
\* it is still comparing never returns: Python raises RecursionError ("E").
RECURSIVE EventEq(_, _, _, _, _)
EventRefEq(h, ps, a, b, stack) ==
    IF a = b THEN "T"
    ELSE IF a = None \/ b = None THEN "F"
    ELSE EventEq(h, ps, a, b, stack)

EventEq(h, ps, a, b, stack) ==
    IF <<a, b>> \in stack THEN "E"
    ELSE IF \/ h[a].match_time # h[b].match_time
            \/ h[a].event_type # h[b].event_type
            \/ h[a].team # h[b].team
            \/ h[a].tags # h[b].tags THEN "F"
    ELSE LET st == stack \cup {<<a, b>>}
             r1 == EventRefEq(h, ps, h[a].prev_in_possession, h[b].prev_in_possession, st)
         IN IF r1 # "T" THEN r1
            ELSE LET r2 == EventRefEq(h, ps, h[a].next_in_possession,
                                      h[b].next_in_possession, st)
                 IN IF r2 # "T" THEN r2
                    ELSE PossEq(ps, h[a].possession, h[b].possession)

\* list.remove(target): position of the first item that is the target or
\* equals it; 0 when a comparison raised before any item matched
RECURSIVE RemoveScan(_, _, _, _, _)
RemoveScan(h, ps, evs, i, target) ==
    IF i > Len(evs) THEN 0
    ELSE LET r == EventRefEq(h, ps, evs[i], target, {})
         IN IF r = "T" THEN i
            ELSE IF r = "E" THEN 0
            ELSE RemoveScan(h, ps, evs, i + 1, target)

\* ---- app.py handlers -----------------------------------------------------
Response(op, status, detail, index, event) ==
    [op |-> op, status |-> status, detail |-> detail, index |-> index, event |-> event]

\* faulty walk: the loop variable is used after the loop, so an id that
\* matches no node answers the last node visited
RECURSIVE FindPossession_last(_, _, _)
FindPossession_last(ps, walk, pid) ==
    IF walk = <<>> THEN None
    ELSE IF ps[Head(walk)].id = pid \/ Len(walk) = 1 THEN Head(walk)
    ELSE FindPossession_last(ps, Tail(walk), pid)

\* the possession walk of create_event: first node whose id is possession_id
RECURSIVE FindPossession(_, _, _)
FindPossession(ps, walk, pid) ==
    IF walk = <<>> THEN None
    ELSE IF ps[Head(walk)].id = pid THEN Head(walk)
    ELSE FindPossession(ps, Tail(walk), pid)

Unchanged == UNCHANGED <<ev, poss, first_possession, last_possession, events,
                         next_possession_id, next_event, mutated>>

\* POST /matches/<id>/events
create_event(t, y, m, pid, cap) ==
    LET possession == IF pid.k = "absent" THEN None
                      ELSE FindPossession(poss, iter_possessions, pid.n)
    IN
    IF ~FloatOk(t) THEN
        /\ resp' = Response("create_event", 400, "match_time", 0, None)
        /\ Unchanged
    ELSE IF Falsy(y) THEN
        /\ resp' = Response("create_event", 400, "event_type", 0, None)
        /\ Unchanged
    ELSE IF ~ParseOk(y) THEN
        /\ resp' = Response("create_event", 400, "Unknown event_type", 0, None)
        /\ Unchanged
    ELSE IF Falsy(m) THEN
        /\ resp' = Response("create_event", 400, "team", 0, None)
        /\ Unchanged
    ELSE IF pid.k # "absent" /\ possession = None THEN
        /\ resp' = Response("create_event", 400, "Possession id", pid.n, None)
        /\ Unchanged
    ELSE
        /\ next_event <= cap
        /\ possession = None => Len(poss) < MaxPossessions
        /\ \E r \in {add_event_op(ev, poss, first_possession, last_possession,
                                   next_possession_id, events, next_event,
                                   FloatOf(t), ParseOf(y), m.s, possession)} :
              /\ ev' = r.ev
              /\ poss' = r.poss
              /\ first_possession' = r.first
              /\ last_possession' = r.last
              /\ next_possession_id' = r.npid
              /\ events' = r.events
              /\ next_event' = next_event + 1
              /\ resp' = Response("create_event", 201, "", pid.n, next_event)
        /\ UNCHANGED mutated

\* Match.new_possession called directly (generator, ingestion, library users)
new_possession(team) ==
    /\ Len(poss) < MaxPossessions
    /\ LET r == new_possession_op(poss, first_possession, last_possession,
                                  next_possession_id, team)
       IN /\ poss' = r.poss
          /\ first_possession' = r.first
          /\ last_possession' = r.last
          /\ next_possession_id' = r.npid
          /\ resp' = Response("new_possession", 0, "", 0, None)
    /\ UNCHANGED <<ev, events, next_event, mutated>>

\* faulty lookup: a negative index counts from the end of the list
get_event_wraps(index) ==
    IF index >= Len(iter_events) \/ index < -Len(iter_events) THEN
        /\ resp' = Response("get_event", 404, "Event index", index, None)
        /\ Unchanged
    ELSE
        /\ resp' = Response("get_event", 200, "", 0,
                            iter_events[IF index < 0 THEN Len(iter_events) + index + 1
                                        ELSE index + 1])
        /\ Unchanged

\* GET /matches/<id>/events/<index>, through _get_event_by_index_or_404
get_event(index) ==
    IF index < 0 \/ index >= Len(iter_events) THEN
        /\ resp' = Response("get_event", 404, "Event index", index, None)
        /\ Unchanged
    ELSE
        /\ resp' = Response("get_event", 200, "", 0, iter_events[index + 1])
        /\ Unchanged

\* GET /matches/<id>/possessions/<possession_id>/events; the body of a 200
\* answer is PossIterEvents of the node found
list_events_for_possession(possession_id) ==
    IF FindPossession(poss, iter_possessions, possession_id) = None THEN
        /\ resp' = Response("list_events_for_possession", 404, "Possession id",
                            possession_id, None)
        /\ Unchanged
    ELSE
        /\ resp' = Response("list_events_for_possession", 200, "", possession_id, None)
        /\ Unchanged

\* faulty update: the event is moved to the place of its new match_time
update_event_resorts(index, t, y, m) ==
    /\ index >= 0
    /\ index < Len(iter_events)
    /\ LET e == iter_events[index + 1]
           h1 == IF FloatOk(t) THEN [ev EXCEPT ![e].match_time = FloatOf(t)] ELSE ev
           h2 == IF ParseOk(y) THEN [h1 EXCEPT ![e].event_type = ParseOf(y)] ELSE h1
           rest == RemoveAt(events, index + 1)
       IN /\ ev' = h2
          /\ events' = InsertAt(rest, InsertIdx(h2, rest, Len(rest), h2[e].match_time), e)
          /\ mutated' = (mutated \/ h2[e].match_time # ev[e].match_time)
          /\ resp' = Response("update_event", 200, "", 0, e)
    /\ UNCHANGED <<poss, first_possession, last_possession, next_possession_id, next_event>>

\* PATCH /matches/<id>/events/<index>: the fields are assigned one by one, a
\* failing field aborts the request after the earlier ones were assigned
update_event(index, t, y, m) ==
    IF index < 0 \/ index >= Len(iter_events) THEN
        /\ resp' = Response("update_event", 404, "Event index", index, None)
        /\ Unchanged
    ELSE
        LET e == iter_events[index + 1]
            badTime == t.k # "absent" /\ ~FloatOk(t)
            h1 == IF t.k # "absent" /\ FloatOk(t)
                  THEN [ev EXCEPT ![e].match_time = FloatOf(t)] ELSE ev
            badType == ~badTime /\ y.k # "absent" /\ ~ParseOk(y)
            h2 == IF ~badTime /\ y.k # "absent" /\ ParseOk(y)
                  THEN [h1 EXCEPT ![e].event_type = ParseOf(y)] ELSE h1
            h3 == IF ~badTime /\ ~badType /\ m.k # "absent"
                  THEN [h2 EXCEPT ![e].team = m.s] ELSE h2
        IN /\ ev' = h3
           /\ mutated' = (mutated \/ h3[e].match_time # ev[e].match_time)
           /\ resp' = IF badTime THEN Response("update_event", 400, "match_time", index, e)
                      ELSE IF badType
                      THEN Response("update_event", 400, "Unknown event_type", index, e)
                      ELSE Response("update_event", 200, "", 0, e)
           /\ UNCHANGED <<poss, first_possession, last_possession, events,
                          next_possession_id, next_event>>

\* PATCH /matches/<id>/events/<index> with a body that holds only "tags"
update_event_tags(index, tags) ==
    IF index < 0 \/ index >= Len(iter_events) THEN
        /\ resp' = Response("update_event", 404, "Event index", index, None)
        /\ Unchanged
    ELSE
        LET e == iter_events[index + 1]
        IN /\ ev' = [ev EXCEPT ![e].tags = tags]
           /\ resp' = Response("update_event", 200, "", 0, e)
           /\ UNCHANGED <<poss, first_possession, last_possession, events,
                          next_possession_id, next_event, mutated>>

\* delete_event, "Remove from possession linked list": the two neighbours
UnlinkNeighbours(h, target) ==
    LET h1 == IF h[target].prev_in_possession # None
              THEN [h EXCEPT ![h[target].prev_in_possession].next_in_possession =
                                 h[target].next_in_possession]
              ELSE h
    IN IF h1[target].next_in_possession # None
       THEN [h1 EXCEPT ![h1[target].next_in_possession].prev_in_possession =
                           h1[target].prev_in_possession]
       ELSE h1

\* faulty unlinking: a possession that loses its last event is taken out of
\* the possession chain
UnlinkEnds_drops_empty(h, ps, target) ==
    LET pos == h[target].possession
        ps1 == IF pos # None /\ ps[pos].first_event = target
               THEN [ps EXCEPT ![pos].first_event = h[target].next_in_possession]
               ELSE ps
        ps2 == IF pos # None /\ ps1[pos].last_event = target
               THEN [ps1 EXCEPT ![pos].last_event = h[target].prev_in_possession]
               ELSE ps1
        before == ps2[pos].prev_possession
        after == ps2[pos].next_possession
        ps3 == IF ps2[pos].first_event = None /\ before # None
               THEN [ps2 EXCEPT ![before].next_possession = after] ELSE ps2
    IN IF ps2[pos].first_event = None /\ after # None
       THEN [ps3 EXCEPT ![after].prev_possession = before] ELSE ps3

\* delete_event, the ends of the owning possession (h: the heap after the
\* neighbours were relinked)
UnlinkEnds(h, ps, target) ==
    LET pos == h[target].possession
        ps1 == IF pos # None /\ ps[pos].first_event = target
               THEN [ps EXCEPT ![pos].first_event = h[target].next_in_possession]
               ELSE ps
    IN IF pos # None /\ ps1[pos].last_event = target
       THEN [ps1 EXCEPT ![pos].last_event = h[target].prev_in_possession]
       ELSE ps1

Unlink(h, ps, target) ==
    [ev |-> UnlinkNeighbours(h, target),
     poss |-> UnlinkEnds(UnlinkNeighbours(h, target), ps, target)]

\* DELETE /matches/<id>/events/<index>
delete_event(index) ==
    IF index < 0 \/ index >= Len(iter_events) THEN
        /\ resp' = Response("delete_event", 404, "Event index", index, None)
        /\ Unchanged
    ELSE
        LET target == iter_events[index + 1]
            u == Unlink(ev, poss, target)
            at == RemoveScan(u.ev, u.poss, events, 1, target)
            evs == IF at = 0 THEN events ELSE RemoveAt(events, at)
        IN /\ events' = evs
           /\ poss' = u.poss
           /\ ev' = Collect(u.ev, u.poss, evs)
           /\ resp' = Response("delete_event", IF at = 0 THEN 500 ELSE 204,
                               IF at = 0 THEN "RecursionError" ELSE "", 0, target)
           /\ UNCHANGED <<first_possession, last_possession, next_possession_id,
                          next_event, mutated>>

\* ---- probabilistic.py -------------------------------------------------------
\* A float is modelled by the exact ratio it stands for, <<numerator,
\* denominator>> in lowest terms with a positive denominator; counts are
\* whole floats (0.0, 1.0, ...) and are modelled as integers.
One == <<1, 1>>

Abs(n) == IF n < 0 THEN -n ELSE n

RECURSIVE Gcd(_, _)
Gcd(a, b) == IF b = 0 THEN a ELSE Gcd(b, a % b)

\* n / d for d # 0
Ratio(n, d) ==
    LET g == Gcd(Abs(n), Abs(d))
    IN IF d < 0 THEN <<(-n) \div g, (-d) \div g>> ELSE <<n \div g, d \div g>>

RatAdd(p, q) == Ratio(p[1] * q[2] + q[1] * p[2], p[2] * q[2])
RatLess(p, q) == p[1] * q[2] < q[1] * p[2]
RatLeq(p, q) == p[1] * q[2] <= q[1] * p[2]

RECURSIVE SumOver(_, _)
SumOver(f, S) ==
    IF S = {} THEN 0
    ELSE LET x == CHOOSE y \in S : TRUE IN f[x] + SumOver(f, S \ {x})

\* the alpha values a prior is constructed with: the default 1.0, the 0.5 of
\* the priors endpoints, and the degenerate 0.0 and -1.0
Alphas == {<<1, 1>>, <<1, 2>>, <<0, 1>>, <<-1, 1>>}

\* observed events: their event_type (a label of EventType, or one that was
\* added later) and the value key_fn gives for them (the team)
Observations == {"PASS", "EXTRA"} \X {"H", "A"}
Batches == SeqsUpTo(Observations, MaxBatch)

\* every label a query may name
Labels == EventType \cup {"EXTRA"}

\* EventTypePrior(alpha): counts default to 0.0 for every member of EventType
EventTypePrior(alpha) == [alpha |-> alpha, counts |-> [et \in EventType |-> 0]]

\* StateEventTypePriors(alpha): no state has a prior yet
StateEventTypePriors(alpha) == [alpha |-> alpha, priors |-> <<>>]

\* faulty count: an observed label is set to 1.0 instead of incremented
CountEvent_reset(counts, event_type) ==
    [et \in DOMAIN counts \cup {event_type} |->
        IF et = event_type THEN 1 ELSE counts[et]]

\* faulty count: a label the prior does not hold is rejected
CountEvent_known_only(counts, event_type) ==
    IF event_type \in DOMAIN counts
    THEN [counts EXCEPT ![event_type] = @ + 1]
    ELSE counts

\* the body of the loop of EventTypePrior.update_from_events
CountEvent(counts, event_type) ==
    IF event_type \in DOMAIN counts
    THEN [counts EXCEPT ![event_type] = @ + 1]
    ELSE [et \in DOMAIN counts \cup {event_type} |->
             IF et = event_type THEN 1 ELSE counts[et]]

\* EventTypePrior.update_from_events
RECURSIVE prior_update_from_events(_, _)
prior_update_from_events(p, evts) ==
    IF evts = <<>> THEN p
    ELSE prior_update_from_events(
             [p EXCEPT !.counts = CountEvent(p.counts, Head(evts)[1])], Tail(evts))

\* k = len(self.counts) or len(EventType)
LabelCount(p) ==
    IF Cardinality(DOMAIN p.counts) # 0 THEN Cardinality(DOMAIN p.counts)
    ELSE Cardinality(EventType)

\* EventTypePrior.total_mass
total_mass(p) ==
    Ratio(SumOver(p.counts, DOMAIN p.counts) * p.alpha[2] + p.alpha[1] * LabelCount(p),
          p.alpha[2])

\* sum(self.counts.values()) + self.alpha * k, times the denominator of alpha
DenomTimes(p, k) == SumOver(p.counts, DOMAIN p.counts) * p.alpha[2] + p.alpha[1] * k
\* count + self.alpha, times the denominator of alpha
NumTimes(p, c) == c * p.alpha[2] + p.alpha[1]

\* faulty posterior: K is always the size of the enum
posterior_prob_enum_k(p, event_type) ==
    LET k == Cardinality(EventType)
        c == IF event_type \in DOMAIN p.counts THEN p.counts[event_type] ELSE 0
    IN IF DenomTimes(p, k) <= 0 THEN Ratio(1, k)
       ELSE Ratio(NumTimes(p, c), DenomTimes(p, k))

\* EventTypePrior.posterior_prob
posterior_prob(p, event_type) ==
    LET k == LabelCount(p)
        c == IF event_type \in DOMAIN p.counts THEN p.counts[event_type] ELSE 0
    IN IF DenomTimes(p, k) <= 0 THEN Ratio(1, k)
       ELSE Ratio(NumTimes(p, c), DenomTimes(p, k))

\* faulty distribution: K is always the size of the enum
probs_enum_k(p) ==
    LET k == Cardinality(EventType)
    IN IF DenomTimes(p, k) <= 0 THEN [et \in DOMAIN p.counts |-> Ratio(1, k)]
       ELSE [et \in DOMAIN p.counts |->
                Ratio(NumTimes(p, p.counts[et]), DenomTimes(p, k))]

\* EventTypePrior.probs
probs(p) ==
    LET k == LabelCount(p)
    IN IF DenomTimes(p, k) <= 0 THEN [et \in DOMAIN p.counts |-> Ratio(1, k)]
       ELSE [et \in DOMAIN p.counts |->
                Ratio(NumTimes(p, p.counts[et]), DenomTimes(p, k))]

\* the members of EventType in declaration order
EventTypeOrder ==
    <<"PASS", "SHOT", "FOUL", "TURNOVER", "TACKLE", "DRIBBLE", "INTERCEPTION",
      "SAVE", "CLEARANCE", "OTHER">>

\* the labels an update can add to the counts, in the order of their addition
AddedOrder == <<"EXTRA">>

\* list(self.probs().items()), its keys: a dict iterates in insertion order,
\* the members of EventType first and the labels added by updates after them
items(p) == SelectSeq(EventTypeOrder \o AddedOrder, LAMBDA et : et \in DOMAIN p.counts)

\* the values rng.random() returns: 0.0, values inside (0, 1), and a value no
\* cumulative sum reaches (the sum of the rounded probabilities falling short)
Draws == {<<0, 1>>, <<1, 10>>, <<1, 2>>, <<2, 1>>}

\* faulty scan: a label is returned when its cumulative sum exceeds r
RECURSIVE SampleScan_strict(_, _, _, _, _)
SampleScan_strict(its, pr, r, acc, i) ==
    IF i > Len(its) THEN its[Len(its)]
    ELSE LET acc1 == RatAdd(acc, pr[its[i]])
         IN IF RatLess(r, acc1) THEN its[i]
            ELSE SampleScan_strict(its, pr, r, acc1, i + 1)

\* the loop of EventTypePrior.sample and its fallback
RECURSIVE SampleScan(_, _, _, _, _)
SampleScan(its, pr, r, acc, i) ==
    IF i > Len(its) THEN its[Len(its)]
    ELSE LET acc1 == RatAdd(acc, pr[its[i]])
         IN IF RatLeq(r, acc1) THEN its[i]
            ELSE SampleScan(its, pr, r, acc1, i + 1)

\* EventTypePrior.sample, r being the value rng.random() returns
sample(p, r) == SampleScan(items(p), probs(p), r, <<0, 1>>, 1)

\* faulty lookup: the prior of a state is created anew on every call
get_or_create_fresh(sp, state) ==
    [sp EXCEPT !.priors = [k \in DOMAIN sp.priors \cup {state} |->
                              IF k = state THEN EventTypePrior(sp.alpha)
                              ELSE sp.priors[k]]]

\* StateEventTypePriors._get_or_create: the collection with a prior for state
get_or_create(sp, state) ==
    IF state \in DOMAIN sp.priors THEN sp
    ELSE [sp EXCEPT !.priors = [k \in DOMAIN sp.priors \cup {state} |->
                                   IF k = state THEN EventTypePrior(sp.alpha)
                                   ELSE sp.priors[k]]]

\* StateEventTypePriors.update_from_events, key_fn(ev) being ev[2]
RECURSIVE state_update_from_events(_, _)
state_update_from_events(sp, evts) ==
    IF evts = <<>> THEN sp
    ELSE LET state == Head(evts)[2]
             sp1 == get_or_create(sp, state)
         IN state_update_from_events(
                [sp1 EXCEPT !.priors[state] =
                                prior_update_from_events(@, <<Head(evts)>>)],
                Tail(evts))

\* what a call on the priors was given and what it returned
Result(op, arg, value) == [op |-> op, arg |-> arg, value |-> value]

\* the same events are fed to an EventTypePrior and, with key_fn, to a
\* StateEventTypePriors
update_from_events(evts) ==
    /\ SumOver(prior.counts, DOMAIN prior.counts) + Len(evts) <= MaxObservations
    /\ prior' = prior_update_from_events(prior, evts)
    /\ state_priors' = state_update_from_events(state_priors, evts)
    /\ resp' = Result("update_from_events", evts, None)
    /\ Unchanged
    /\ UNCHANGED <<matches, sb>>

\* faulty query: a label the prior does not hold is added with count 0.0
query_posterior_prob_adds(event_type) ==
    /\ resp' = Result("posterior_prob", event_type, posterior_prob(prior, event_type))
    /\ prior' = [prior EXCEPT !.counts =
                     [et \in DOMAIN prior.counts \cup {event_type} |->
                         IF et \in DOMAIN prior.counts THEN prior.counts[et] ELSE 0]]
    /\ Unchanged
    /\ UNCHANGED <<matches, sb, state_priors>>

\* prior.posterior_prob(event_type)
query_posterior_prob(event_type) ==
    /\ resp' = Result("posterior_prob", event_type, posterior_prob(prior, event_type))
    /\ Unchanged
    /\ UNCHANGED <<matches, sb, prior, state_priors>>

\* prior.probs()
query_probs ==
    /\ resp' = Result("probs", None, probs(prior))
    /\ Unchanged
    /\ UNCHANGED <<matches, sb, prior, state_priors>>

\* prior.sample(rng), rng.random() returning r
query_sample(r) ==
    /\ resp' = Result("sample", r, sample(prior, r))
    /\ Unchanged
    /\ UNCHANGED <<matches, sb, prior, state_priors>>

\* ---- the filters of Match, called by a library user -----------------------
query_events_by_type(type_set) ==
    /\ resp' = Result("events_by_type", type_set, events_by_type(type_set))
    /\ Unchanged

query_shots_for_team(team) ==
    /\ resp' = Result("shots_for_team", team, shots_for_team(team))
    /\ Unchanged

query_goals_for_team(team) ==
    /\ resp' = Result("goals_for_team", team, goals_for_team(team))
    /\ Unchanged

query_possessions_for_team(team) ==
    /\ resp' = Result("possessions_for_team", team, possessions_for_team(team))
    /\ Unchanged

\* ---- statsbomb_loader.py and the registry ------------------------------------
\* no _create_demo_match call is running
Idle == [pc |-> "idle"]

SecondsPerMinute == 60

\* a StatsBomb record: type.name, minute, second, team.name, possession and
\* possession_team.name ("" for a missing name)
Rec(type, minute, second, team, possession, possession_team) ==
    [type |-> type, minute |-> minute, second |-> second, team |-> team,
     possession |-> possession, possession_team |-> possession_team]

SbRecords ==
    {Rec("Pass", Num(0), Num(1), "A", Num(1), "A"),
     Rec("Shot", Num(0), Num(2), "B", Num(1), ""),
     Rec("Carry", Num(0), Num(0), "C", Absent, ""),
     Rec("Pass", Absent, Num(1), "B", Num(2), ""),
     Rec("Pass", Str("x"), Num(1), "A", Num(1), ""),
     Rec("Starting XI", Num(0), Num(0), "A", Absent, "")}

\* what the data file holds: nothing (no file), or a record collection
NoFile == [file |-> FALSE, events |-> <<>>]
DataFiles == {NoFile} \cup {[file |-> TRUE, events |-> q] : q \in SeqsUpTo(SbRecords, MaxRecords)}

MatchIds == {"demo"}

\* _infer_team_names: the scan stops as soon as two names are collected
RECURSIVE InferScan(_, _)
InferScan(recs, names) ==
    IF recs = <<>> \/ Len(names) >= 2 THEN names
    ELSE LET name == Head(recs).team
         IN InferScan(Tail(recs),
                      IF name # "" /\ name \notin Range(names)
                      THEN Append(names, name) ELSE names)

infer_team_names(recs) ==
    LET names == InferScan(recs, <<>>)
    IN [ok |-> Len(names) = 2, names |-> names]

\* str.lower() on the StatsBomb type names
Lower(name) ==
    CASE name = "Pass" -> "pass"
      [] name = "Shot" -> "shot"
      [] name = "Carry" -> "carry"
      [] name = "Starting XI" -> "starting xi"
      [] OTHER -> name

\* _map_event_type
map_event_type(sb_type) ==
    LET name == Lower(sb_type)
    IN IF name = "pass" THEN "PASS"
       ELSE IF name = "shot" THEN "SHOT"
       ELSE IF name \in {"foul committed", "foul won"} THEN "FOUL"
       ELSE IF name \in {"dispossessed", "miscontrol"} THEN "TURNOVER"
       ELSE IF name \in {"tackle", "block", "clearance"}
            THEN (IF name = "clearance" THEN "CLEARANCE" ELSE "TACKLE")
       ELSE IF name \in {"dribble", "carry"} THEN "DRIBBLE"
       ELSE IF name \in {"ball recovery", "interception"} THEN "INTERCEPTION"
       ELSE IF name \in {"goalkeeper", "save"} THEN "SAVE"
       ELSE "OTHER"

\* record types the loop ignores
SkippedTypes == {"Starting XI", "Half Start", "Half End", "Substitution"}

\* the Match object the registry holds, by value
EventValues(h, ps, evs) ==
    [i \in 1 .. Len(evs) |-> <<h[evs[i]].match_time, h[evs[i]].event_type,
                               h[evs[i]].team, ps[h[evs[i]].possession].id>>]

MatchValue(home_team, away_team, source, evs) ==
    [home_team |-> home_team, away_team |-> away_team, source |-> source,
     events |-> evs]

Register(match_id, m) ==
    [id \in DOMAIN matches \cup {match_id} |-> IF id = match_id THEN m ELSE matches[id]]

\* Match(home_team, away_team): a fresh, empty match in the local variables
FreshMatch ==
    /\ ev' = <<>>
    /\ poss' = <<>>
    /\ first_possession' = None
    /\ last_possession' = None
    /\ events' = <<>>
    /\ next_possession_id' = 1
    /\ next_event' = 1
    /\ mutated' = FALSE

\* the frame of a _create_demo_match call that goes on to the generator
Fallback(match_id) == [pc |-> "generate", match_id |-> match_id]

\* faulty registration: the Match is put into the registry as soon as it is
\* constructed, before any record is ingested
create_demo_match_eager(match_id) ==
    /\ sb.pc \in {"idle", "done"}
    /\ match_id \notin DOMAIN matches
    /\ \E data \in DataFiles :
          /\ data.file
          /\ infer_team_names(data.events).ok
          /\ FreshMatch
          /\ sb' = [pc |-> "loop", match_id |-> match_id, records |-> data.events,
                    i |-> 1, possessions |-> <<>>,
                    home_team |-> infer_team_names(data.events).names[1],
                    away_team |-> infer_team_names(data.events).names[2]]
          /\ matches' = Register(match_id,
                                 MatchValue(infer_team_names(data.events).names[1],
                                            infer_team_names(data.events).names[2],
                                            "statsbomb", <<>>))
          /\ resp' = Response("_create_demo_match", 0, "load", 0, None)
    /\ UNCHANGED <<prior, state_priors>>

\* _create_demo_match up to the first record: the early return, the file
\* test and its content, _infer_team_names and Match(...) of
\* match_from_statsbomb_events
create_demo_match(match_id) ==
    /\ sb.pc \in {"idle", "done"}
    /\ IF match_id \in DOMAIN matches THEN
           /\ sb' = Idle
           /\ resp' = Response("_create_demo_match", 0, "exists", 0, None)
           /\ Unchanged
       ELSE
           \E data \in DataFiles :
               IF ~data.file THEN
                   /\ sb' = Fallback(match_id)
                   /\ resp' = Response("_create_demo_match", 0, "no file", 0, None)
                   /\ Unchanged
               ELSE IF ~infer_team_names(data.events).ok THEN
                   /\ sb' = Fallback(match_id)
                   /\ resp' = Response("_create_demo_match", 0, "ValueError", 0, None)
                   /\ Unchanged
               ELSE
                   LET names == infer_team_names(data.events).names
                   IN /\ FreshMatch
                      /\ sb' = [pc |-> "loop", match_id |-> match_id,
                                records |-> data.events, i |-> 1, possessions |-> <<>>,
                                home_team |-> names[1], away_team |-> names[2]]
                      /\ resp' = Response("_create_demo_match", 0, "load", 0, None)
    /\ UNCHANGED <<matches, prior, state_priors>>

\* one pass of the loop of match_from_statsbomb_events over record sb.i
sb_record ==
    /\ sb.pc = "loop"
    /\ sb.i <= Len(sb.records)
    /\ LET rec == sb.records[sb.i]
       IN IF \/ rec.type = ""
             \/ rec.type \in SkippedTypes
             \/ rec.minute.k = "absent"
             \/ rec.second.k = "absent" THEN
              /\ sb' = [sb EXCEPT !.i = @ + 1]
              /\ UNCHANGED resp
              /\ Unchanged
          ELSE IF ~FloatOk(rec.minute) \/ ~FloatOk(rec.second) THEN
              /\ sb' = Fallback(sb.match_id)
              /\ resp' = Response("_create_demo_match", 0, "ValueError", 0, None)
              /\ Unchanged
          ELSE IF rec.team = "" THEN
              /\ sb' = [sb EXCEPT !.i = @ + 1]
              /\ UNCHANGED resp
              /\ Unchanged
          ELSE
              LET match_time == FloatOf(rec.minute) * SecondsPerMinute + FloatOf(rec.second)
                  poss_team_name == IF rec.possession_team # "" THEN rec.possession_team
                                    ELSE rec.team
                  known == rec.possession.k = "num" /\ rec.possession.n \in DOMAIN sb.possessions
                  np == IF known
                        THEN [poss |-> poss, first |-> first_possession,
                              last |-> last_possession, npid |-> next_possession_id,
                              node |-> sb.possessions[rec.possession.n]]
                        ELSE new_possession_op(poss, first_possession, last_possession,
                                               next_possession_id, poss_team_name)
                  r == add_event_op(ev, np.poss, np.first, np.last, np.npid, events,
                                    next_event, match_time, map_event_type(rec.type),
                                    rec.team, np.node)
              IN /\ ev' = r.ev
                 /\ poss' = r.poss
                 /\ first_possession' = r.first
                 /\ last_possession' = r.last
                 /\ next_possession_id' = r.npid
                 /\ events' = r.events
                 /\ next_event' = next_event + 1
                 /\ sb' = [sb EXCEPT !.i = @ + 1,
                                     !.possessions =
                                         IF rec.possession.k = "num" /\ ~known
                                         THEN [k \in DOMAIN @ \cup {rec.possession.n} |->
                                                 IF k = rec.possession.n THEN np.node ELSE @[k]]
                                         ELSE @]
                 /\ UNCHANGED <<resp, mutated>>
    /\ UNCHANGED <<matches, prior, state_priors>>

\* `return match` of match_from_statsbomb_events, then
\* `_matches[match_id] = match; return` of _create_demo_match
sb_return ==
    /\ sb.pc = "loop"
    /\ sb.i > Len(sb.records)
    /\ matches' = Register(sb.match_id,
                           MatchValue(sb.home_team, sb.away_team, "statsbomb",
                                      EventValues(ev, poss, events)))
    /\ sb' = [pc |-> "done", match_id |-> sb.match_id, records |-> sb.records,
              home_team |-> sb.home_team, away_team |-> sb.away_team]
    /\ resp' = Response("_create_demo_match", 0, "loaded", 0, None)
    /\ Unchanged
    /\ UNCHANGED <<prior, state_priors>>

\* the synthetic generator.  Its random draws are a plan: per event the type
\* drawn and what follows it (the possession goes on, or it ends and the next
\* one is for the same or for the other team); the k-th event has time k,
\* as current_time only grows.
GenTypes == {"PASS", "DRIBBLE", "TACKLE", "TURNOVER", "FOUL", "SHOT"}
GenTurns == {"stay", "same", "other"}
GenPlans == SeqsUpTo(GenTypes \X GenTurns, MaxGenEvents)

RECURSIVE Generate(_, _, _)
Generate(st, plan, k) ==
    IF k > Len(plan) THEN st
    ELSE LET r == add_event_op(st.ev, st.poss, st.first, st.last, st.npid, st.events,
                               k, k, plan[k][1], st.team, st.node)
             team == IF plan[k][2] = "other"
                     THEN (IF st.team = "Home FC" THEN "Away FC" ELSE "Home FC")
                     ELSE st.team
             np == IF plan[k][2] = "stay"
                   THEN [poss |-> r.poss, first |-> r.first, last |-> r.last,
                         npid |-> r.npid, node |-> st.node]
                   ELSE new_possession_op(r.poss, r.first, r.last, r.npid, team)
         IN Generate([ev |-> r.ev, poss |-> np.poss, first |-> np.first,
                      last |-> np.last, npid |-> np.npid, events |-> r.events,
                      team |-> team, node |-> np.node], plan, k + 1)

\* _create_demo_match, "2) Fallback": build the synthetic match, register it
generate(plan) ==
    /\ sb.pc = "generate"
    /\ LET p0 == new_possession_op(<<>>, None, None, 1, "Home FC")
           st == Generate([ev |-> <<>>, poss |-> p0.poss, first |-> p0.first,
                           last |-> p0.last, npid |-> p0.npid, events |-> <<>>,
                           team |-> "Home FC", node |-> p0.node], plan, 1)
       IN /\ ev' = st.ev
          /\ poss' = st.poss
          /\ first_possession' = st.first
          /\ last_possession' = st.last
          /\ next_possession_id' = st.npid
          /\ events' = st.events
          /\ next_event' = Len(plan) + 1
          /\ mutated' = FALSE
          /\ matches' = Register(sb.match_id,
                                 MatchValue("Home FC", "Away FC", "generator",
                                            EventValues(st.ev, st.poss, st.events)))
    /\ sb' = [pc |-> "done", match_id |-> sb.match_id, records |-> <<>>,
              home_team |-> "Home FC", away_team |-> "Away FC"]
    /\ resp' = Response("_create_demo_match", 0, "generated", 0, None)
    /\ UNCHANGED <<prior, state_priors>>

\* POST /matches
create_match(match_id, home_team, away_team) ==
    /\ sb.pc \in {"idle", "done"}
    /\ IF match_id = "" \/ home_team = "" \/ away_team = "" THEN
           /\ resp' = Response("create_match", 400, "required", 0, None)
           /\ UNCHANGED matches
       ELSE IF match_id \in DOMAIN matches THEN
           /\ resp' = Response("create_match", 409, "exists", 0, None)
           /\ UNCHANGED matches
       ELSE
           /\ resp' = Response("create_match", 201, "", 0, None)
           /\ matches' = Register(match_id,
                                  MatchValue(home_team, away_team, "create_match", <<>>))
    /\ Unchanged
    /\ UNCHANGED <<sb, prior, state_priors>>

\* ---- specifications ------------------------------------------------------
Init ==
    /\ ev = <<>>
    /\ poss = <<>>
    /\ first_possession = None
    /\ last_possession = None
    /\ events = <<>>
    /\ next_possession_id = 1
    /\ next_event = 1
    /\ mutated = FALSE
    /\ resp = Response("init", 0, "", 0, None)
    /\ matches = <<>>
    /\ sb = Idle
    /\ prior = EventTypePrior(One)
    /\ state_priors = StateEventTypePriors(One)

\* possession_id inputs: none, or the id of some possession created so far
PossIdInputs == {Absent} \cup {Num(i) : i \in 1 .. Len(poss)}

\* possession_id inputs of Spec: none, or the id of the latest possession (the
\* way the generator and the ingestion adapter fill a match)
LastPossIdInputs ==
    {Absent} \cup {Num(poss[p].id) : p \in {last_possession} \ {None}}

Next ==
    \/ \E t \in TimeInputs, y \in TypeInputs, m \in TeamInputs, pid \in LastPossIdInputs :
          create_event(t, y, m, pid, MaxEvents) /\ Aside
    \/ \E team \in PossessionTeams : new_possession(team) /\ Aside
    \/ \E index \in 0 .. Len(events) - 1 : delete_event(index) /\ Aside

Spec == Init /\ [][Next]_vars

\* The same, with in-place updates of match_time, in a shorter behaviour
NextUpdate ==
    \/ \E t \in TimeInputs, y \in TypeInputs, m \in TeamInputs, pid \in PossIdInputs :
          create_event(t, y, m, pid, MaxUpdateEvents) /\ Aside
    \/ \E index \in 0 .. Len(events) - 1, t \in TimeInputs, y \in UpdateTypeInputs :
          update_event(index, t, y, Absent) /\ Aside
    \/ \E index \in 0 .. Len(events) - 1 : delete_event(index) /\ Aside

SpecUpdate == Init /\ [][NextUpdate]_vars

\* Events that all carry the same field values, in a longer behaviour
NextUniform ==
    \/ \E t \in UniTimeInputs, y \in TypeInputs, m \in TeamInputs, pid \in PossIdInputs :
          create_event(t, y, m, pid, MaxUniformEvents) /\ Aside
    \/ \E index \in 0 .. Len(events) - 1 : delete_event(index) /\ Aside

SpecUniform == Init /\ [][NextUniform]_vars

\* Requests of every kind, well-formed or not: indices from -1 to the event
\* count, possession ids from 0 to one past the latest id
LookupIndices == -1 .. Len(events)
LookupPossIds == 0 .. Len(poss) + 1
RequestPossIdInputs == {Absent} \cup {Num(i) : i \in LookupPossIds}

NextRequests ==
    \/ \E b \in CreateRequests, pid \in RequestPossIdInputs :
          create_event(b[1], b[2], b[3], pid, MaxRequestEvents) /\ Aside
    \/ \E index \in LookupIndices : get_event(index) /\ Aside
    \/ \E index \in LookupIndices :
          update_event(index, Absent, Str("SHOT"), Absent) /\ Aside
    \/ \E index \in LookupIndices : delete_event(index) /\ Aside
    \/ \E pid \in LookupPossIds : list_events_for_possession(pid) /\ Aside

SpecRequests == Init /\ [][NextRequests]_vars

\* The registry: matches created by request, and the demo match loaded from
\* a data file or generated
NextIngest ==
    \/ \E match_id \in MatchIds : create_demo_match(match_id)
    \/ sb_record
    \/ sb_return
    \/ \E plan \in GenPlans : generate(plan)
    \/ \E match_id \in MatchIds \cup {""}, home_team \in {"", "H"} :
          create_match(match_id, home_team, "A")

SpecIngest == Init /\ [][NextIngest]_vars

\* Delete-and-reinsert: events are created, one of them has its match_time
\* updated in place, the caller deletes that event and adds it again
ReinsertTimeInputs == {Num(1), Num(2)}
ReinsertUpdateTimes == {Num(1)}

NextReinsert ==
    \/ /\ ~mutated \/ resp.op = "delete_event"
       /\ \E t \in ReinsertTimeInputs, y \in TypeInputs, m \in TeamInputs, pid \in PossIdInputs :
             create_event(t, y, m, pid, MaxReinsertEvents) /\ Aside
    \/ /\ ~mutated
       /\ \E index \in 0 .. Len(events) - 1, t \in ReinsertUpdateTimes :
             update_event(index, t, Absent, Absent) /\ Aside
    \/ /\ mutated /\ resp.op = "update_event"
       /\ \E index \in 0 .. Len(events) - 1 :
             /\ iter_events[index + 1] = resp.event
             /\ delete_event(index) /\ Aside

SpecReinsert == Init /\ [][NextReinsert]_vars

\* Creation with a match_time on either side of kickoff, and updates whose
\* fields are absent, valid or invalid in every combination
PatchTimeInputs == {Num(-1), Num(1)}
PatchTimes == {Absent, Num(2), Str("abc")}
PatchTypes == {Absent, Str("SHOT"), Str("BOGUS")}
PatchTeams == {Absent, Str("A")}

NextPatch ==
    \/ \E t \in PatchTimeInputs, y \in TypeInputs, m \in TeamInputs, pid \in LastPossIdInputs :
          create_event(t, y, m, pid, MaxRequestEvents) /\ Aside
    \/ \E index \in LookupIndices, t \in PatchTimes, y \in PatchTypes, m \in PatchTeams :
          update_event(index, t, y, m) /\ Aside

SpecPatch == Init /\ [][NextPatch]_vars

\* Events of two types and two teams, each starting a possession of its
\* team, tagged by later updates, and the filters over them
FilterTimeInputs == {Num(0), Num(1)}
FilterTypeInputs == {Str("PASS"), Str("SHOT")}
FilterTeams == {"H", "A"}
FilterTypeSets == {{"PASS"}, {"SHOT"}, {"PASS", "SHOT"}}
TagInputs == {GoalTags, NoGoalTags}

NextFilters ==
    \/ \E t \in FilterTimeInputs, y \in FilterTypeInputs, m \in FilterTeams :
          create_event(t, y, Str(m), Absent, MaxPossessions) /\ Aside
    \/ \E index \in 0 .. Len(events) - 1, tags \in TagInputs :
          update_event_tags(index, tags) /\ Aside
    \/ \E type_set \in FilterTypeSets : query_events_by_type(type_set) /\ Aside
    \/ \E team \in FilterTeams : query_shots_for_team(team) /\ Aside
    \/ \E team \in FilterTeams : query_goals_for_team(team) /\ Aside
    \/ \E team \in FilterTeams : query_possessions_for_team(team) /\ Aside

SpecFilters == Init /\ [][NextFilters]_vars

\* The priors: constructed with some alpha, updated and queried
InitPriors ==
    /\ ev = <<>>
    /\ poss = <<>>
    /\ first_possession = None
    /\ last_possession = None
    /\ events = <<>>
    /\ next_possession_id = 1
    /\ next_event = 1
    /\ mutated = FALSE
    /\ resp = Result("init", None, None)
    /\ matches = <<>>
    /\ sb = Idle
    /\ \E alpha \in Alphas :
          /\ prior = EventTypePrior(alpha)
          /\ state_priors = StateEventTypePriors(alpha)

NextPriors ==
    \/ \E evts \in Batches : update_from_events(evts)
    \/ \E event_type \in Labels : query_posterior_prob(event_type)
    \/ query_probs
    \/ \E r \in Draws : query_sample(r)

SpecPriors == InitPriors /\ [][NextPriors]_vars

\* ==== claims ==============================================================
TimeOf(e) == ev[e].match_time
Ids(walk) == [i \in 1 .. Len(walk) |-> poss[walk[i]].id]

\* C1: as long as no match_time was changed in place, iter_events() yields the
\* events in non-decreasing match_time order.
C1_SortedByTime ==
    ~mutated =>
        \A i \in 1 .. Len(iter_events) - 1 :
            TimeOf(iter_events[i]) <= TimeOf(iter_events[i + 1])

\* the scenario of the spec: added as 10, 5, 20 and returned as 5, 10, 20
C1_Witness ==
    /\ iter_events = <<2, 1, 3>>
    /\ TimeOf(2) < TimeOf(1)
    /\ TimeOf(1) < TimeOf(3)

\* C2: of two present events with equal match_time, the one added by the
\* earlier add_event call (the smaller key) comes first in iter_events().
C2_StableTies ==
    ~mutated =>
        \A i, j \in 1 .. Len(iter_events) :
            (i < j /\ TimeOf(iter_events[i]) = TimeOf(iter_events[j]))
                => iter_events[i] < iter_events[j]

\* a tie between the first and the third event added, in different
\* possessions, the second one deleted in between
C2_Witness ==
    /\ iter_events = <<1, 3>>
    /\ TimeOf(1) = TimeOf(3)
    /\ ev[1].possession # ev[3].possession
    /\ resp.op = "create_event"

\* C5: after n possession creations iter_possessions() yields the ids 1 .. n
\* in ascending order and the id counter is n + 1.
C5_PossessionIds ==
    /\ Ids(iter_possessions) = [i \in 1 .. Len(poss) |-> i]
    /\ next_possession_id = Len(poss) + 1

\* an explicit, still empty possession followed by an implicit one
C5_Witness ==
    /\ Len(poss) = 2
    /\ poss[1].first_event = None
    /\ poss[1].team_in_possession = "A"
    /\ poss[2].team_in_possession = "H"
    /\ poss[2].first_event # None

\* C9: as long as no match_time was changed in place, events_in_time_range
\* yields what the full filter start <= match_time <= end of list_events yields.
C9_RangeScanIsFilter ==
    ~mutated =>
        \A start, end \in -1 .. MaxTime + 1 :
            events_in_time_range(start, end) = ListEventsWindow(start, end)

\* the scan skips an event before the window and stops at one after it
C9_Witness ==
    /\ Len(iter_events) = 3
    /\ TimeOf(iter_events[1]) < TimeOf(iter_events[2])
    /\ TimeOf(iter_events[2]) < TimeOf(iter_events[3])
    /\ events_in_time_range(TimeOf(iter_events[2]), TimeOf(iter_events[2]))
           = <<iter_events[2]>>

\* C3: for every possession the forward traversal from first_event and the
\* backward traversal from last_event visit the same events in reversed order.
C3_ForwardIsReversedBackward ==
    \A p \in 1 .. Len(poss) : PossIterEvents(p) = Reverse(PossIterEventsReverse(p))

\* C4: the match-wide sequence and the possession chains hold the same events:
\* no event twice in the sequence, every event of the sequence in the chain of
\* exactly the possession it names, and no chain event missing from the sequence.
C4_SequenceMatchesChains ==
    /\ \A i, j \in 1 .. Len(iter_events) : iter_events[i] = iter_events[j] => i = j
    /\ \A e \in Range(iter_events) :
           \A p \in 1 .. Len(poss) :
               (e \in Range(PossIterEvents(p))) <=> (ev[e].possession = p)
    /\ \A p \in 1 .. Len(poss) : Range(PossIterEvents(p)) \subseteq Range(iter_events)

\* ---- steps, as seen from the response they leave ----------------------------
Without(c, e) == SelectIds(c, Range(c) \ {e})
IsPrefix(a, b) == Len(a) <= Len(b) /\ \A i \in 1 .. Len(a) : a[i] = b[i]
PossessionLinks(ps) ==
    [p \in 1 .. Len(ps) |-> <<ps[p].id, ps[p].team_in_possession,
                              ps[p].prev_possession, ps[p].next_possession>>]

\* a delete_event request that passed the index check, and its target
DeleteStep == resp'.op = "delete_event" /\ resp'.status # 404
\* a create_event request that reached Match.add_event, and its event
AddStep == resp'.op = "create_event" /\ resp'.status = 201

\* C6: deleting an event of a possession chain leaves the chain as it was
\* with exactly that event removed, in both directions: a deleted head makes
\* the second event the first_event, a deleted tail makes the second-to-last
\* the last_event, a deleted sole event leaves first_event and last_event empty.
C6_DeleteStep ==
    DeleteStep =>
        LET t == resp'.event
            p == ev[t].possession
            c == PossIterEvents(p)
            n == Len(c)
        IN t \in Range(c) =>
            /\ ChainOf(ev', poss', p) = Without(c, t)
            /\ ChainReverseOf(ev', poss', p) = Reverse(Without(c, t))
            /\ (n = 1) => (poss'[p].first_event = None /\ poss'[p].last_event = None)
            /\ (n > 1 /\ c[1] = t) => poss'[p].first_event = c[2]
            /\ (n > 1 /\ c[n] = t) => poss'[p].last_event = c[n - 1]
            /\ \A i \in 2 .. n - 1 :
                   c[i] = t => /\ ev'[c[i - 1]].next_in_possession = c[i + 1]
                               /\ ev'[c[i + 1]].prev_in_possession = c[i - 1]

C6_DeleteRelinks == [][C6_DeleteStep]_vars

\* C7: no step removes a possession: iter_possessions() only grows at its
\* tail, and a delete_event step leaves every possession node, id, team and
\* prev/next link as it was, also when it empties a possession.
C7_Step ==
    /\ IsPrefix(iter_possessions, iter_possessions')
    /\ \A p \in 1 .. Len(poss) :
           /\ p <= Len(poss')
           /\ poss'[p].id = poss[p].id
           /\ poss'[p].team_in_possession = poss[p].team_in_possession
           /\ poss'[p].prev_possession = poss[p].prev_possession
    /\ DeleteStep =>
           /\ PossessionLinks(poss') = PossessionLinks(poss)
           /\ iter_possessions' = iter_possessions
           /\ iter_possessions_reverse' = iter_possessions_reverse
           /\ first_possession' = first_possession
           /\ last_possession' = last_possession
           /\ next_possession_id' = next_possession_id

C7_PossessionsNeverRemoved == [][C7_Step]_vars

\* the only event of the first of two possessions was deleted
C7_Witness ==
    /\ resp.op = "delete_event"
    /\ resp.status = 204
    /\ Len(iter_possessions) = 2
    /\ poss[1].team_in_possession = "H"
    /\ poss[1].first_event = None
    /\ poss[1].last_event = None
    /\ poss[2].first_event # None

\* C8: add_event without a possession appends exactly one new possession for
\* the event's team and makes the event its only event; add_event with a
\* possession leaves the possession chain and the id counter alone and
\* appends the event at the tail of that possession's chain.
C8_AddStep ==
    AddStep =>
        LET e == resp'.event
            p == ev'[e].possession
        IN IF resp'.index = 0
           THEN /\ Len(poss') = Len(poss) + 1
                /\ iter_possessions' = Append(iter_possessions, p)
                /\ p = Len(poss')
                /\ next_possession_id' = next_possession_id + 1
                /\ poss'[p].team_in_possession = ev'[e].team
                /\ ChainOf(ev', poss', p) = <<e>>
                /\ ChainReverseOf(ev', poss', p) = <<e>>
                /\ \A q \in 1 .. Len(poss) :
                       ChainOf(ev', poss', q) = PossIterEvents(q)
           ELSE /\ PossessionLinks(poss') = PossessionLinks(poss)
                /\ iter_possessions' = iter_possessions
                /\ next_possession_id' = next_possession_id
                /\ poss[p].id = resp'.index
                /\ ChainOf(ev', poss', p) = Append(PossIterEvents(p), e)
                /\ poss'[p].last_event = e
                /\ \A q \in 1 .. Len(poss) :
                       q # p => ChainOf(ev', poss', q) = PossIterEvents(q)

C8_AddEventPossession == [][C8_AddStep]_vars

\* C10: an update_event step repositions nothing: every event, the updated
\* one included, keeps its index in the match-wide sequence and its links,
\* and no other event and no possession changes.
C10_UpdateStep ==
    (resp'.op = "update_event" /\ resp'.status = 200) =>
        LET e == resp'.event
        IN /\ iter_events' = iter_events
           /\ e \in Range(iter_events)
           /\ poss' = poss
           /\ DOMAIN ev' = DOMAIN ev
           /\ \A x \in DOMAIN ev : x # e => ev'[x] = ev[x]
           /\ ev'[e].prev_in_possession = ev[e].prev_in_possession
           /\ ev'[e].next_in_possession = ev[e].next_in_possession
           /\ ev'[e].possession = ev[e].possession
           /\ ev'[e].team = ev[e].team

C10_UpdateKeepsPositions == [][C10_UpdateStep]_vars

\* after an update the match-wide sequence is out of match_time order
C10_Witness ==
    /\ resp.op = "update_event"
    /\ resp.status = 200
    /\ Len(iter_events) = 2
    /\ iter_events[1] = resp.event
    /\ TimeOf(iter_events[1]) > TimeOf(iter_events[2])
    /\ ev[iter_events[1]].possession = ev[iter_events[2]].possession

\* ---- requests that must fail -------------------------------------------------
MatchUnchanged ==
    UNCHANGED <<ev, poss, first_possession, last_possession, events,
                next_possession_id, next_event, mutated>>

\* C11: get, update and delete of an event by index answer 404 with that
\* index and change nothing when the index is negative or >= the event
\* count; otherwise they address the event at that position of iter_events().
C11_Step ==
    \A index \in LookupIndices :
        (\/ get_event(index)
         \/ update_event(index, Absent, Str("SHOT"), Absent)
         \/ delete_event(index))
        => IF index < 0 \/ index >= Len(iter_events)
           THEN /\ resp'.status = 404
                /\ resp'.detail = "Event index"
                /\ resp'.index = index
                /\ resp'.event = None
                /\ MatchUnchanged
           ELSE /\ resp'.status \in {200, 204}
                /\ resp'.event = iter_events[index + 1]
                /\ resp'.op = "get_event" => MatchUnchanged

C11_IndexLookups == [][C11_Step]_vars

\* index -1 was refused while the match holds two events
C11_Witness ==
    /\ resp.status = 404
    /\ resp.detail = "Event index"
    /\ resp.index = -1
    /\ Len(iter_events) = 2

\* C12: listing the events of a possession id, or creating an event with a
\* possession_id, that no possession of the match carries fails with an
\* error naming that id and changes nothing: no event is added and no
\* possession is created.
C12_Step ==
    \A pid \in LookupPossIds :
        pid \notin Range(Ids(iter_possessions)) =>
            /\ list_events_for_possession(pid) =>
                   /\ resp'.status = 404
                   /\ resp'.detail = "Possession id"
                   /\ resp'.index = pid
                   /\ MatchUnchanged
            /\ create_event(Num(1), Str("PASS"), Str("H"), Num(pid), MaxRequestEvents) =>
                   /\ resp'.status \in {400, 404}
                   /\ resp'.detail = "Possession id"
                   /\ resp'.index = pid
                   /\ MatchUnchanged

C12_PossessionLookups == [][C12_Step]_vars

\* an event for possession id 2 was refused in a match whose only possession
\* has id 1 and holds an event
C12_Witness ==
    /\ resp.op = "create_event"
    /\ resp.detail = "Possession id"
    /\ resp.index = 2
    /\ Ids(iter_possessions) = <<1>>
    /\ Len(iter_events) = 1

\* C13: a create_event request whose match_time, event_type or team is
\* missing, or whose event_type is no label of EventType, is rejected with
\* an error naming an offending field and changes nothing.
C13_Step ==
    \A b \in CreateRequests, pid \in RequestPossIdInputs :
        LET noTime == b[1].k # "num"
            noType == b[2].k = "absent" \/ b[2].s = ""
            badType == ~noType /\ b[2].s \notin EventType
            noTeam == b[3].k = "absent" \/ b[3].s = ""
        IN (create_event(b[1], b[2], b[3], pid, MaxRequestEvents)
                /\ (noTime \/ noType \/ badType \/ noTeam))
           => /\ resp'.status = 400
              /\ \/ resp'.detail = "match_time" /\ noTime
                 \/ resp'.detail = "event_type" /\ noType
                 \/ resp'.detail = "Unknown event_type" /\ badType
                 \/ resp'.detail = "team" /\ noTeam
              /\ MatchUnchanged

C13_CreateRejects == [][C13_Step]_vars

\* an unknown label was refused for an existing possession of a match that
\* holds an event
C13_Witness ==
    /\ resp.op = "create_event"
    /\ resp.status = 400
    /\ resp.detail = "Unknown event_type"
    /\ Len(iter_events) = 1
    /\ Len(poss) = 1

\* ---- ingestion ---------------------------------------------------------------
Ingesting == sb.pc = "loop"
\* the loop has consumed the whole collection: the next step returns the Match
Ingested == sb.pc = "loop" /\ sb.i > Len(sb.records)
\* registry entries that this step added or replaced
Registered == {id \in DOMAIN matches' : id \notin DOMAIN matches \/ matches'[id] # matches[id]}

\* C14: a Match built by the ingestion adapter enters the registry only in
\* the step that follows the successful return of the ingestion of the whole
\* collection, and complete; while records are being ingested, and in the
\* step in which the ingestion fails, the registry does not change.
C14_Step ==
    /\ \A id \in Registered :
           matches'[id].source = "statsbomb" =>
               /\ Ingested
               /\ id = sb.match_id
               /\ matches'[id].events = EventValues(ev, poss, events)
               /\ sb'.pc = "done"
    /\ (Ingesting /\ ~Ingested) => matches' = matches
    /\ (~Ingesting /\ sb'.pc = "loop") => matches' = matches
    /\ sb'.pc = "generate" => matches' = matches
    /\ (sb.pc = "generate" /\ sb'.pc = "done") =>
           /\ Registered = {sb.match_id}
           /\ matches'[sb.match_id].source = "generator"

C15_MissingTimingIsFatal ==
    (sb.pc = "done" /\ sb.match_id \in DOMAIN matches
                   /\ matches[sb.match_id].source = "statsbomb") =>
        \A i \in 1 .. Len(sb.records) :
            /\ sb.records[i].minute.k # "absent"
            /\ sb.records[i].second.k # "absent"

\* C16: an ingestion that returned a Match was given records that name
\* exactly two distinct teams, and home_team and away_team are these two in
\* the order of first appearance.
TeamNames(recs) == {recs[i].team : i \in 1 .. Len(recs)} \ {""}

C16_ExactlyTwoTeams ==
    (sb.pc = "done" /\ sb.match_id \in DOMAIN matches
                   /\ matches[sb.match_id].source = "statsbomb") =>
        /\ Cardinality(TeamNames(sb.records)) = 2
        /\ TeamNames(sb.records) = {sb.home_team, sb.away_team}
        /\ \E i, j \in 1 .. Len(sb.records) :
               /\ i < j
               /\ sb.records[i].team = sb.home_team
               /\ sb.records[j].team = sb.away_team
               /\ \A k \in 1 .. j - 1 : sb.records[k].team \in {"", sb.home_team}

\* ---- priors ------------------------------------------------------------------
\* the count of a label in a prior, 0.0 for a label it does not hold
CountIn(p, label) == IF label \in DOMAIN p.counts THEN p.counts[label] ELSE 0
Observed(p) == SumOver(p.counts, DOMAIN p.counts)
UpdateStep == resp'.op = "update_from_events"

RECURSIVE RatSum(_, _)
RatSum(f, S) ==
    IF S = {} THEN <<0, 1>>
    ELSE LET x == CHOOSE y \in S : TRUE IN RatAdd(f[x], RatSum(f, S \ {x}))

\* C17: what posterior_prob(label) returned is (count[label] + alpha) /
\* (sum of counts + alpha * K), K the number of labels of the prior, when this
\* denominator is positive, and 1 / K otherwise; with alpha = 1, K = 10 and
\* three PASS observed it is 4/13 for PASS and 1/13 for a label not observed.
C17_PosteriorFormula ==
    resp.op = "posterior_prob" =>
        LET k == Cardinality(DOMAIN prior.counts)
            a == prior.alpha
            den == Observed(prior) * a[2] + a[1] * k
            num == CountIn(prior, resp.arg) * a[2] + a[1]
            v == resp.value
        IN /\ v[2] > 0
           /\ den > 0 => v[1] * den = num * v[2]
           /\ den <= 0 => v[1] * k = v[2]
           /\ (a = <<1, 1>> /\ k = 10 /\ Observed(prior) = 3 /\ CountIn(prior, "PASS") = 3)
                  => v = IF resp.arg = "PASS" THEN <<4, 13>> ELSE <<1, 13>>

\* the scenario of the spec, asked for PASS
C17_Witness ==
    /\ resp.op = "posterior_prob"
    /\ resp.arg = "PASS"
    /\ resp.value = <<4, 13>>
    /\ prior.alpha = <<1, 1>>
    /\ prior.counts["PASS"] = 3
    /\ Cardinality(DOMAIN prior.counts) = 10

\* C18: with alpha > 0 the values that probs() returned, one for each label of
\* the prior, sum to 1, whatever was observed before; with nothing observed
\* each of them is 1 / K.
C18_ProbsSumToOne ==
    (resp.op = "probs" /\ prior.alpha[1] > 0) =>
        /\ DOMAIN resp.value = DOMAIN prior.counts
        /\ RatSum(resp.value, DOMAIN resp.value) = <<1, 1>>
        /\ Observed(prior) = 0 =>
               \A et \in DOMAIN resp.value :
                   resp.value[et] = <<1, Cardinality(DOMAIN prior.counts)>>

\* the distribution of a prior with alpha 0.5 that has seen a label outside
\* the enum, and PASS
C18_Witness ==
    /\ resp.op = "probs"
    /\ prior.alpha = <<1, 2>>
    /\ "EXTRA" \in DOMAIN prior.counts
    /\ prior.counts["PASS"] >= 1
    /\ RatLess(resp.value["SHOT"], resp.value["EXTRA"])

\* C19: with alpha > 0, an update whose events all carry one label that the
\* prior already holds strictly raises posterior_prob of that label, leaves
\* the counts of the other labels alone and strictly lowers their
\* posterior_prob.
C19_Step ==
    (UpdateStep /\ prior.alpha[1] > 0 /\ resp'.arg # <<>>) =>
        LET label == resp'.arg[1][1]
        IN (/\ \A i \in 1 .. Len(resp'.arg) : resp'.arg[i][1] = label
            /\ label \in DOMAIN prior.counts)
           => /\ RatLess(posterior_prob(prior, label), posterior_prob(prior', label))
              /\ prior'.counts[label] = prior.counts[label] + Len(resp'.arg)
              /\ \A other \in DOMAIN prior.counts \ {label} :
                     /\ prior'.counts[other] = prior.counts[other]
                     /\ RatLess(posterior_prob(prior', other), posterior_prob(prior, other))

C19_PosteriorMonotone == [][C19_Step]_vars

\* PASS was observed once more by a prior that had already observed it
C19_Witness ==
    /\ resp.op = "update_from_events"
    /\ resp.arg = <<<<"PASS", "A">>>>
    /\ prior.counts["PASS"] = 2
    /\ prior.alpha = <<1, 1>>

\* C20: an update of the per-state priors adds each event to the count of its
\* label in the prior of its key and nowhere else, the keys are those it had
\* plus the keys of the events, and summed over the keys the count of every
\* label is its count in the single prior fed with the same events.
StateKeys == {o[2] : o \in Observations}
StateCount(sp, key, label) ==
    IF key \in DOMAIN sp.priors THEN CountIn(sp.priors[key], label) ELSE 0

C20_Step ==
    UpdateStep =>
        LET evts == resp'.arg
            Times(label, key) ==
                Cardinality({i \in 1 .. Len(evts) : evts[i] = <<label, key>>})
        IN /\ DOMAIN state_priors'.priors =
                  DOMAIN state_priors.priors \cup {evts[i][2] : i \in 1 .. Len(evts)}
           /\ \A key \in StateKeys, label \in Labels :
                  StateCount(state_priors', key, label) =
                      StateCount(state_priors, key, label) + Times(label, key)
           /\ \A label \in Labels :
                  SumOver([key \in StateKeys |-> StateCount(state_priors', key, label)],
                          StateKeys)
                      = CountIn(prior', label)

C20_StateCountsAddUp == [][C20_Step]_vars

\* three PASS events, two of key H and one of key A
C20_Witness ==
    /\ resp.op = "update_from_events"
    /\ DOMAIN state_priors.priors = {"H", "A"}
    /\ state_priors.priors["H"].counts["PASS"] = 2
    /\ state_priors.priors["A"].counts["PASS"] = 1
    /\ prior.counts["PASS"] = 3

\* C21: update_from_events adds, for every label, the number of events of the
\* batch that carry it to the count of that label and rejects none; a label
\* the prior did not hold is added (with count 1 when seen once), so that K
\* grows by one for each such label and total_mass by the number of events
\* plus alpha for each added label; alpha is left alone.
C21_Step ==
    UpdateStep =>
        LET evts == resp'.arg
            seen == {evts[i][1] : i \in 1 .. Len(evts)}
            added == seen \ DOMAIN prior.counts
            Times(label) == Cardinality({i \in 1 .. Len(evts) : evts[i][1] = label})
            a == prior.alpha
            tm == total_mass(prior)
        IN /\ DOMAIN prior'.counts = DOMAIN prior.counts \cup seen
           /\ \A label \in Labels :
                  CountIn(prior', label) = CountIn(prior, label) + Times(label)
           /\ \A label \in added : Times(label) = 1 => prior'.counts[label] = 1
           /\ LabelCount(prior') = LabelCount(prior) + Cardinality(added)
           /\ prior'.alpha = a
           /\ total_mass(prior') =
                  Ratio(tm[1] * a[2] + (Len(evts) * a[2] + a[1] * Cardinality(added)) * tm[2],
                        tm[2] * a[2])

C21_CountsGrowByOne == [][C21_Step]_vars

\* one batch brought a label the prior did not hold, and PASS
C21_Witness ==
    /\ resp.op = "update_from_events"
    /\ resp.arg = <<<<"EXTRA", "H">>, <<"PASS", "A">>>>
    /\ Cardinality(DOMAIN prior.counts) = 11
    /\ prior.counts["EXTRA"] = 1
    /\ prior.counts["PASS"] = 2

\* C22: sample returns a label of the prior: the first one, in the iteration
\* order of probs(), whose cumulative probability is at least the drawn r,
\* and the last one when no cumulative probability reaches r.
C22_SampleIsFirstReaching ==
    resp.op = "sample" =>
        LET its == items(prior)
            pr == probs(prior)
            Cum(i) == RatSum([j \in 1 .. i |-> pr[its[j]]], 1 .. i)
            hits == {i \in 1 .. Len(its) : ~RatLess(Cum(i), resp.arg)}
        IN /\ resp.value \in DOMAIN prior.counts
           /\ Range(its) = DOMAIN prior.counts
           /\ Len(its) = Cardinality(DOMAIN prior.counts)
           /\ hits = {} => resp.value = its[Len(its)]
           /\ hits # {} =>
                  \E i \in hits : /\ resp.value = its[i]
                                  /\ \A j \in hits : i <= j

\* r = 0.5 on a prior with alpha 1 that saw PASS three times: the cumulative
\* sums are 4/13, 5/13, 6/13, 7/13
C22_Witness ==
    /\ resp.op = "sample"
    /\ resp.arg = <<1, 2>>
    /\ resp.value = "TURNOVER"
    /\ prior.alpha = <<1, 1>>
    /\ prior.counts["PASS"] = 3

\* C23: probs(), posterior_prob(label) and sample(rng) leave alpha, the labels
\* and the counts as they were (posterior_prob of a label the prior does not
\* hold does not add it), so that the same query asked again returns the same.
QueryStep == resp'.op \in {"posterior_prob", "probs", "sample"}

C23_Step ==
    QueryStep =>
        /\ prior' = prior
        /\ state_priors' = state_priors
        /\ resp'.op = "posterior_prob" => resp'.value = posterior_prob(prior', resp'.arg)
        /\ resp'.op = "probs" => resp'.value = probs(prior')
        /\ resp'.op = "sample" => resp'.value = sample(prior', resp'.arg)

C23_QueriesReadOnly == [][C23_Step]_vars

\* posterior_prob was asked for a label the prior does not hold
C23_Witness ==
    /\ resp.op = "posterior_prob"
    /\ resp.arg = "EXTRA"
    /\ "EXTRA" \notin DOMAIN prior.counts
    /\ Observed(prior) >= 1

\* ---- filters ----------------------------------------------------------------
\* s holds exactly the members of base that are in S, once each, in the
\* order base has them
PositionIn(base, x) == CHOOSE i \in 1 .. Len(base) : base[i] = x
FilteredFrom(s, base, S) ==
    /\ Range(s) = Range(base) \cap S
    /\ \A i, j \in 1 .. Len(s) :
           i < j => PositionIn(base, s[i]) < PositionIn(base, s[j])

FilterStep ==
    resp'.op \in {"events_by_type", "shots_for_team", "goals_for_team",
                  "possessions_for_team"}

\* C24: events_by_type, shots_for_team and goals_for_team yield exactly the
\* events of iter_events() that satisfy their predicate, in the order of
\* iter_events() (goals_for_team: the SHOT events of the team whose is_goal
\* tag is truthy, a subsequence of shots_for_team); possessions_for_team yields
\* the possessions of the team in the order of iter_possessions(); none of
\* them changes the match.
C24_Step ==
    FilterStep =>
        LET v == resp'.value
            a == resp'.arg
            shots == {e \in DOMAIN ev : ev[e].event_type = "SHOT" /\ ev[e].team = a}
        IN /\ MatchUnchanged
           /\ resp'.op = "events_by_type" =>
                  FilteredFrom(v, iter_events, {e \in DOMAIN ev : ev[e].event_type \in a})
           /\ resp'.op = "shots_for_team" => FilteredFrom(v, iter_events, shots)
           /\ resp'.op = "goals_for_team" =>
                  /\ FilteredFrom(v, iter_events,
                                  {e \in shots : "is_goal" \in DOMAIN ev[e].tags
                                                     /\ ev[e].tags["is_goal"] = TRUE})
                  /\ FilteredFrom(v, shots_for_team(a), Range(v))
           /\ resp'.op = "possessions_for_team" =>
                  FilteredFrom(v, iter_possessions,
                               {p \in DOMAIN poss : poss[p].team_in_possession = a})

C24_FiltersSelectInOrder == [][C24_Step]_vars

\* goals_for_team("H") found the goal of H, a SHOT, while an earlier PASS of
\* H carries a truthy is_goal tag as well
C24_Witness ==
    /\ resp.op = "goals_for_team"
    /\ resp.arg = "H"
    /\ Len(resp.value) = 1
    /\ Len(iter_events) = 2
    /\ resp.value[1] = iter_events[2]
    /\ \E e \in DOMAIN ev :
           ev[e].event_type = "PASS" /\ ev[e].team = "H" /\ ev[e].tags = GoalTags

\* ---- match_time and updates -------------------------------------------------
\* C25: every event of the match has a match_time >= 0.
C25_NonNegativeTimes ==
    \A i \in 1 .. Len(iter_events) : TimeOf(iter_events[i]) >= 0

\* C26: events_in_time_range(start, end) yields events of the window in
\* iter_events() order; an event of the window is left out only behind an
\* event whose match_time is past `end`, and only in a match in which an
\* update changed a match_time in place (where such a state is reached).
C26_OmissionsFollowUpdates ==
    \A start \in TimeVals, end \in TimeVals :
        LET scan == events_in_time_range(start, end)
            window == ListEventsWindow(start, end)
        IN /\ FilteredFrom(scan, window, Range(scan))
           /\ \A i \in 1 .. Len(iter_events) :
                  (iter_events[i] \in Range(window) \ Range(scan)) =>
                      \E j \in 1 .. i - 1 : TimeOf(iter_events[j]) > end
           /\ scan # window => mutated

\* an update moved the first event past the second one: the scan for [1, 1]
\* stops at it and leaves out the event at 1
C26_Witness ==
    /\ mutated
    /\ Len(iter_events) = 2
    /\ TimeOf(iter_events[1]) = 2
    /\ TimeOf(iter_events[2]) = 1
    /\ events_in_time_range(1, 1) = <<>>
    /\ ListEventsWindow(1, 1) = <<iter_events[2]>>

\* C29: an update that is answered with a validation error leaves every field
\* of the addressed event and the rest of the match as they were.
C29_Step ==
    (resp'.op = "update_event" /\ resp'.status = 400) => MatchUnchanged

C29_RejectedUpdateChangesNothing == [][C29_Step]_vars

\* ---- deletion -------------------------------------------------------------
SortedTimes(evs) ==
    \A i \in 1 .. Len(evs) - 1 : TimeOf(evs[i]) <= TimeOf(evs[i + 1])

\* C27: when the match-wide sequence is sorted apart from the one event whose
\* match_time an update changed in place, and the caller has deleted that
\* event, adding it again with its new match_time (to its possession) leaves
\* a sequence that is non-decreasing in match_time.
C27_Step ==
    (/\ resp.op = "delete_event"
     /\ resp.status # 404
     /\ mutated
     /\ SortedTimes(Without(iter_events, resp.event))
     /\ AddStep
     /\ resp.event \in DOMAIN ev =>
            /\ ev'[resp'.event].match_time = TimeOf(resp.event)
            /\ ev'[resp'.event].possession = ev[resp.event].possession)
    => \A i \in 1 .. Len(events') - 1 :
           ev'[events'[i]].match_time <= ev'[events'[i + 1]].match_time

C27_ReinsertRestoresOrder == [][C27_Step]_vars

\* C28: deleting the event at index i leaves the match-wide sequence as it
\* was with position i dropped, whatever field values the other events
\* carry, and leaves the chains of the other possessions as they were.
C28_Step ==
    \A index \in 0 .. Len(iter_events) - 1 :
        delete_event(index) =>
            /\ events' = RemoveAt(events, index + 1)
            /\ \A q \in 1 .. Len(poss) :
                   q # ev[iter_events[index + 1]].possession =>
                       /\ ChainOf(ev', poss', q) = PossIterEvents(q)
                       /\ ChainReverseOf(ev', poss', q) = PossIterEventsReverse(q)

C28_DeleteRemovesThatEvent == [][C28_Step]_vars

\* the members of a set of event keys, earliest add_event call first
RECURSIVE Ascending(_)
Ascending(S) ==
    IF S = {} THEN <<>>
    ELSE LET m == CHOOSE x \in S : \A y \in S : x <= y
         IN <<m>> \o Ascending(S \ {m})

\* C30: the forward traversal of a possession yields the events of the
\* match-wide sequence that belong to it, in the order of their add_event
\* calls, whatever their match_time order is.
C30_ChainsInInsertionOrder ==
    \A p \in 1 .. Len(poss) :
        PossIterEvents(p) =
            Ascending({e \in Range(iter_events) : ev[e].possession = p})

====
